---------------------------- MODULE Spec2Model ----------------------------
(***************************************************************************)
(* Model of src/index.js: an Express service whose POST /classify handler  *)
(* fans a list of image URLs out to a remote classifier in two sequential  *)
(* stages (batchPredict), averages the per-image predictions by tag        *)
(* (averageByTag) and picks the best stage-2 label (getMaxLabel).          *)
(*                                                                         *)
(* Numbers.  JavaScript numbers are IEEE 754 doubles.  A probability the   *)
(* remote side answers is written in hundredths (Num(95) is what the       *)
(* literal 0.95 denotes).  A number is the double itself: sign, exponent   *)
(* and the 53 bits of the mantissa in two limbs; zeros of both signs,      *)
(* subnormal numbers, the infinities and NaN are values too.  + and /      *)
(* round to nearest, ties to even, as the doubles do.                      *)
(*                                                                         *)
(* Objects.  A JavaScript object used as a map is the sequence of its own  *)
(* <<key, value>> pairs in Object.entries order: keys that are array       *)
(* indices first, in ascending numeric order, then the other string keys   *)
(* in insertion order.  A property read also sees what the object inherits *)
(* from Object.prototype.                                                  *)
(***************************************************************************)
EXTENDS Integers, Sequences, FiniteSets, TLC

VARIABLES
    env,      \* process.env: the three keys and the three endpoint URLs
    pc,       \* pc[r]: where the handler of request r stands
    body,     \* body[r]: req.body.imageUrls of request r
    calls,    \* calls[r]: the per-image axios.post calls request r issued, in issue order
    locals,   \* locals[r]: the handler's constants once stage 1 is done (lines 121-146)
    resp,     \* resp[r]: the HTTP response sent for request r
    nresp,    \* nresp[r]: how many times res.json was called for request r
    fnIn,     \* input of the function under test (SpecFn)
    fnOut,    \* its result
    fnOp      \* which function was applied

vars == <<env, pc, body, calls, locals, resp, nresp, fnIn, fnOut, fnOp>>

-----------------------------------------------------------------------------
(* Bounds *)

\* Longest imageUrls list of a request, and longest batch given to averageByTag.
MaxImages == 2

\* The /classify requests a behaviour may hold.
Reqs == {"r1", "r2"}

-----------------------------------------------------------------------------
(* JavaScript values *)

\* JavaScript null (the label getMaxLabel starts from); no tag name is this string.
null == "null"

\* A double is <<s, e, h, l>>: sign s (1 for negative), and the magnitude
\* (h * 2^28 + l) * 2^e, with 2^52 <= h * 2^28 + l < 2^53 for a normal number,
\* and e = MinExp with a smaller h * 2^28 + l for a subnormal one and for zero.

\* The low limb holds 28 bits.
Limb == 268435456

\* Exponent of the last mantissa bit of the smallest and of the largest doubles.
MinExp == -1074
MaxExp == 971

\* The double 0.
Zero == <<0, MinExp, 0, 0>>

Infinity(s) == <<s, MaxExp + 1, 0, 0>>

NaN == <<0, MaxExp + 2, 0, 0>>

IsNaN(q) == q[2] = MaxExp + 2
IsInfinite(q) == q[2] = MaxExp + 1
IsZero(q) == q[2] = MinExp /\ q[3] = 0 /\ q[4] = 0

\* Number of bits of the whole number x.
RECURSIVE BitLength(_)
BitLength(x) ==
    IF x >= 65536 THEN 16 + BitLength(x \div 65536)
    ELSE IF x >= 256 THEN 8 + BitLength(x \div 256)
    ELSE IF x >= 16 THEN 4 + BitLength(x \div 16)
    ELSE IF x >= 4 THEN 2 + BitLength(x \div 4)
    ELSE IF x >= 2 THEN 2 ELSE x

\* H * 2^28 + L without its k lowest bits, and whether one of them was set.
ShiftRight(H, L, k) ==
    IF k = 0 THEN <<H, L, FALSE>>
    ELSE IF k < 28
    THEN LET p == 2 ^ k
         IN  <<H \div p, (H % p) * (Limb \div p) + (L \div p), L % p # 0>>
    ELSE IF k < 59
    THEN LET p == 2 ^ (k - 28)
         IN  <<(H \div p) \div Limb, (H \div p) % Limb, H % p # 0 \/ L # 0>>
    ELSE <<0, 0, H # 0 \/ L # 0>>

\* (H * 2^28 + L) * 2^k, a number below 2^53.
ShiftLeft(H, L, k) ==
    IF k <= 28
    THEN LET p == 2 ^ (28 - k)
         IN  <<H * (Limb \div p) + (L \div p), (L % p) * (Limb \div p)>>
    ELSE <<L * 2 ^ (k - 28), 0>>

\* The rounded mantissa h * 2^28 + l at exponent e: a carry out of the 53 bits
\* gives the next power of two, and what exceeds the largest double is Infinity.
Pack(s, e, h, l) ==
    IF h + (l \div Limb) >= 33554432
    THEN IF e + 1 > MaxExp THEN Infinity(s) ELSE <<s, e + 1, 16777216, 0>>
    ELSE IF e > MaxExp THEN Infinity(s) ELSE <<s, e, h + (l \div Limb), l % Limb>>

\* x is the magnitude cut one bit under its last kept bit, with whether bits
\* were lost under that one: the half bit rounds up when more follows it or
\* when the last kept bit is odd (ties to even).
RoundUp(x, sticky) ==
    IF x[2] % 2 = 1 /\ (x[3] \/ sticky \/ (x[2] \div 2) % 2 = 1) THEN 1 ELSE 0

\* The magnitude (H * 2^28 + L) * 2^e with its last bit moved to exponent e + t.
RoundAt(s, e, H, L, sticky, t) ==
    IF t <= 0
    THEN <<s, e + t>> \o ShiftLeft(H, L, -t)
    ELSE LET x == ShiftRight(H, L, t - 1)
         IN  Pack(s, e + t, x[1] \div 2,
                  (x[1] % 2) * (Limb \div 2) + (x[2] \div 2) + RoundUp(x, sticky))

\* The exponent shift that leaves 53 bits of a magnitude of bits bits at
\* exponent e, fewer when that would go under the smallest exponent.
RoundShift(e, bits) == IF e + bits - 53 < MinExp THEN MinExp - e ELSE bits - 53

\* The double nearest to the exact magnitude (H * 2^28 + L) * 2^e (to that and
\* a bit more when sticky), with sign s: 53 significant bits are kept, fewer
\* below 2^-1022, ties go to the even neighbour, and what exceeds the largest
\* double is Infinity.
Round53(s, e, H, L, sticky) ==
    IF H = 0 /\ L = 0 THEN <<s, MinExp, 0, 0>>
    ELSE RoundAt(s, e, H, L, sticky,
                 RoundShift(e, IF H > 0 THEN 28 + BitLength(H) ELSE BitLength(L)))

\* |a| < |b| on doubles that are no NaN.
MagnitudeLess(a, b) ==
    \/ a[2] < b[2]
    \/ a[2] = b[2] /\ a[3] < b[3]
    \/ a[2] = b[2] /\ a[3] = b[3] /\ a[4] < b[4]

\* The mantissa of a with three more bits under it, in two limbs.
Widen(a) == <<a[3] * 8 + (a[4] \div 33554432), (a[4] % 33554432) * 8>>

\* X + y for equal signs, else X - y, y short of a bit when y[3] says that
\* bits of it were cut off.
Combine(X, y, same) ==
    IF same
    THEN <<X[1] + y[1] + ((X[2] + y[2]) \div Limb), (X[2] + y[2]) % Limb>>
    ELSE LET l == X[2] - y[2] - (IF y[3] THEN 1 ELSE 0)
         IN  <<X[1] - y[1] - (IF l < 0 THEN 1 ELSE 0), IF l < 0 THEN l + Limb ELSE l>>

\* The exact result x at exponent e rounded once; what cancels is +0.
RoundSum(s, e, x, sticky) ==
    IF x[1] = 0 /\ x[2] = 0 /\ ~sticky THEN Zero ELSE Round53(s, e, x[1], x[2], sticky)

\* big + small with |big| >= |small| > 0 and small already brought to the
\* exponent of big, three more bits kept (y).
AddAligned(big, y, same) == RoundSum(big[1], big[2] - 3, Combine(Widen(big), y, same), y[3])

\* big + small, |big| >= |small| > 0, both finite.
AddMagnitudes(big, small) ==
    AddAligned(big, ShiftRight(Widen(small)[1], Widen(small)[2], big[2] - small[2]),
               big[1] = small[1])

\* a + b on doubles.
JsAdd(a, b) ==
    IF IsNaN(a) \/ IsNaN(b) THEN NaN
    ELSE IF IsInfinite(a) THEN (IF IsInfinite(b) /\ a[1] # b[1] THEN NaN ELSE a)
    ELSE IF IsInfinite(b) THEN b
    ELSE IF IsZero(a) /\ IsZero(b) THEN (IF a[1] = 1 /\ b[1] = 1 THEN a ELSE Zero)
    ELSE IF IsZero(a) THEN b
    ELSE IF IsZero(b) THEN a
    ELSE AddMagnitudes(IF MagnitudeLess(a, b) THEN b ELSE a,
                       IF MagnitudeLess(a, b) THEN a ELSE b)

\* One step of the long division by n: the quotient digit and the remainder of
\* r * 2^w + chunk, r < n.
DivStep(r, chunk, w, n) ==
    IF n > 1073741824
    THEN IF r >= n - r - chunk THEN <<1, r - (n - r - chunk)>> ELSE <<0, r + r + chunk>>
    ELSE LET x == r * 2 ^ w + chunk IN <<x \div n, x % n>>

\* (H * 2^28 + L) * 2^extra divided by n, c bits at a time.  st holds the bits
\* of the mantissa still to bring down, the zero bits still to bring down, the
\* remainder and the two limbs of the quotient so far.  The result is the
\* quotient and whether a remainder is left.
RECURSIVE LongDivision(_, _, _, _, _)
LongDivision(H, L, c, n, st) ==
    IF st[1] = 0 /\ st[2] = 0 THEN <<st[4], st[5], st[3] # 0>>
    ELSE LET left  == IF st[1] > 0 THEN st[1] ELSE st[2]
             w     == IF left < c THEN left ELSE c
             chunk == IF st[1] > 0 THEN ShiftRight(H, L, st[1] - w)[2] % (2 ^ w) ELSE 0
             d     == DivStep(st[3], chunk, w, n)
             p     == 2 ^ (28 - w)
         IN  LongDivision(H, L, c, n,
                          <<IF st[1] > 0 THEN st[1] - w ELSE 0,
                            IF st[1] > 0 THEN st[2] ELSE st[2] - w,
                            d[2],
                            st[4] * (Limb \div p) + (st[5] \div p),
                            (st[5] % p) * (Limb \div p) + d[1]>>)

\* Bits of a whole number below 2^31 taken at a time when dividing by a
\* divisor of bn bits.
ChunkBits(bn) == IF bn >= 31 THEN 1 ELSE IF bn <= 3 THEN 28 ELSE 31 - bn

\* The quotient q = <<limbs, sticky>> at exponent e, rounded once.
RoundQuotient(s, e, q) == Round53(s, e, q[1], q[2], q[3])

\* a / n with the mantissa of a followed by j zero bits.
DivideScaled(a, n, j, c) ==
    RoundQuotient(a[1], a[2] - j, LongDivision(a[3], a[4], c, n, <<56, j, 0, 0, 0>>))

\* a / n on a double a, n a whole number from 1 on: the quotient is taken to
\* 55 or 56 bits and a sticky remainder, and rounded once.
JsDiv(a, n) ==
    IF IsNaN(a) \/ IsInfinite(a) \/ IsZero(a) THEN a
    ELSE DivideScaled(a, n,
             55 - (IF a[3] > 0 THEN 28 + BitLength(a[3]) ELSE BitLength(a[4])) + BitLength(n),
             ChunkBits(BitLength(n)))

\* The double a literal of x hundredths denotes: the nearest to x / 100.
Num(x) ==
    LET k == IF x < 0 THEN -x ELSE x
        d == JsDiv(Round53(0, 0, k \div Limb, k % Limb, FALSE), 100)
    IN  <<IF x < 0 THEN 1 ELSE 0, d[2], d[3], d[4]>>

\* a < b on doubles that are no NaN.
Less(a, b) ==
    IF IsZero(a) /\ IsZero(b) THEN FALSE
    ELSE IF a[1] # b[1] THEN a[1] = 1
    ELSE IF a[1] = 0 THEN MagnitudeLess(a, b) ELSE MagnitudeLess(b, a)

\* a > b and a >= b on JavaScript numbers: false when either is NaN.
JsGT(a, b) == ~IsNaN(a) /\ ~IsNaN(b) /\ Less(b, a)
JsGE(a, b) == ~IsNaN(a) /\ ~IsNaN(b) /\ ~Less(a, b)

\* The accessor of Object.prototype that reads and sets the prototype.
ProtoKey == "__proto__"

\* Property names every plain object inherits from Object.prototype.
ObjectPrototypeKeys ==
    { "constructor", "toString", "toLocaleString", "valueOf", "hasOwnProperty",
      "isPrototypeOf", "propertyIsEnumerable", "__defineGetter__",
      "__defineSetter__", "__lookupGetter__", "__lookupSetter__", ProtoKey }

\* Keys that are array indices, with their numeric value.
IndexKeys == {"7"}
IndexValue(k) == IF k = "7" THEN 7 ELSE -1

\* Own keys of object m, in Object.entries order.
Keys(m) == [i \in 1..Len(m) |-> m[i][1]]
KeySet(m) == {m[i][1] : i \in 1..Len(m)}
HasOwn(m, k) == k \in KeySet(m)
Own(m, k) == m[CHOOSE i \in 1..Len(m) : m[i][1] = k][2]

\* Where a new own key k lands in m: an index key goes before every larger
\* index key and every string key, a string key goes last.
InsertAt(m, k) ==
    IF k \in IndexKeys
    THEN Cardinality({i \in 1..Len(m) :
                        m[i][1] \in IndexKeys /\ IndexValue(m[i][1]) < IndexValue(k)}) + 1
    ELSE Len(m) + 1

\* m[k] = v, v a number or a string.  Assigning to __proto__ calls the
\* inherited setter, which ignores what is no object: m gets no own key.
Put(m, k, v) ==
    IF k = ProtoKey THEN m
    ELSE IF HasOwn(m, k)
    THEN [m EXCEPT ![CHOOSE i \in 1..Len(m) : m[i][1] = k] = <<k, v>>]
    ELSE LET p == InsertAt(m, k)
         IN  SubSeq(m, 1, p - 1) \o << <<k, v>> >> \o SubSeq(m, p, Len(m))

-----------------------------------------------------------------------------
(* averageByTag, lines 43-62 *)

\* A value held in sums: a double, or (str) the string that += makes of an
\* inherited function or object and a number.
NumV(x) == [str |-> FALSE, num |-> x]
StrV == [str |-> TRUE, num |-> Zero]

\* sums[tag] as line 50 and line 51 read it: the own property, else what
\* Object.prototype gives (a function, or Object.prototype itself for
\* __proto__, modelled as StrV: truthy, and a string once added to), else
\* undefined (defined = FALSE).
Read(sums, tag) ==
    IF HasOwn(sums, tag) THEN [defined |-> TRUE, v |-> Own(sums, tag)]
    ELSE IF tag \in ObjectPrototypeKeys THEN [defined |-> TRUE, v |-> StrV]
    ELSE [defined |-> FALSE, v |-> NumV(Zero)]

\* !x for what Read returns: undefined, the numbers 0 and -0, and NaN are falsy.
Falsy(x) == ~x.defined \/ (~x.v.str /\ (IsZero(x.v.num) \/ IsNaN(x.v.num)))

\* Lines 50-51 for one prediction p.
AddPrediction(sums, p) ==
    LET s1  == IF Falsy(Read(sums, p.tagName))
               THEN Put(sums, p.tagName, NumV(Zero))
               ELSE sums
        cur == Read(s1, p.tagName).v
    IN  Put(s1, p.tagName,
            IF cur.str THEN StrV ELSE NumV(JsAdd(cur.num, p.probability)))

\* Lines 49-52: the loop over the predictions of one image.  st is the state
\* of the loop, <<sums, lo, hi>>: the predictions lo..hi are still to add to
\* sums, in order (the first half of them, then the second half).
RECURSIVE AddPredictions(_, _)
AddPredictions(preds, st) ==
    IF st[2] > st[3] THEN st[1]
    ELSE IF st[2] = st[3] THEN AddPrediction(st[1], preds[st[2]])
    ELSE AddPredictions(preds,
             <<AddPredictions(preds, <<st[1], st[2], (st[2] + st[3]) \div 2>>),
               (st[2] + st[3]) \div 2 + 1, st[3]>>)

\* Lines 47-53: the loop over the images, st = <<sums, lo, hi>> as above.
RECURSIVE SumByTag(_, _)
SumByTag(perImage, st) ==
    IF st[2] > st[3] THEN st[1]
    ELSE IF st[2] = st[3]
    THEN AddPredictions(perImage[st[2]].predictions,
                        <<st[1], 1, Len(perImage[st[2]].predictions)>>)
    ELSE SumByTag(perImage,
             <<SumByTag(perImage, <<st[1], st[2], (st[2] + st[3]) \div 2>>),
               (st[2] + st[3]) \div 2 + 1, st[3]>>)

\* Line 58: sum / n.
Divide(sum, n) == IF sum.str THEN NaN ELSE JsDiv(sum.num, n)

\* Lines 55-59: averages[tag] = sum / n over Object.entries(sums), in order;
\* st = <<averages, lo, hi>>, the entries lo..hi still to come.
RECURSIVE FillAverages(_, _, _)
FillAverages(sums, n, st) ==
    IF st[2] > st[3] THEN st[1]
    ELSE IF st[2] = st[3] THEN Put(st[1], sums[st[2]][1], Divide(sums[st[2]][2], n))
    ELSE FillAverages(sums, n,
             <<FillAverages(sums, n, <<st[1], st[2], (st[2] + st[3]) \div 2>>),
               (st[2] + st[3]) \div 2 + 1, st[3]>>)

averageByTag(perImage) ==
    LET sums  == SumByTag(perImage, <<<<>>, 1, Len(perImage)>>)
        count == Len(perImage)
        n     == IF count = 0 THEN 1 ELSE count
    IN  FillAverages(sums, n, <<<<>>, 1, Len(sums)>>)

-----------------------------------------------------------------------------
(* getMaxLabel, lines 67-79 *)

\* Line 69.
bestProbInit == -100

\* The comparison made against the initial -1 instead of the running best.
BetterThanInit(best, entry) ==
    IF JsGT(entry[2], Num(bestProbInit))
    THEN [label |-> entry[1], probability |-> entry[2]]
    ELSE best

\* Lines 72-75 for one entry.
Better(best, entry) ==
    IF JsGT(entry[2], best.probability)
    THEN [label |-> entry[1], probability |-> entry[2]]
    ELSE best

\* Lines 71-76: the loop over Object.entries(probMap); st = <<best, lo, hi>>,
\* the entries lo..hi still to come.
RECURSIVE MaxFrom(_, _)
MaxFrom(probMap, st) ==
    IF st[2] > st[3] THEN st[1]
    ELSE IF st[2] = st[3] THEN Better(st[1], probMap[st[2]])
    ELSE MaxFrom(probMap,
             <<MaxFrom(probMap, <<st[1], st[2], (st[2] + st[3]) \div 2>>),
               (st[2] + st[3]) \div 2 + 1, st[3]>>)

getMaxLabel(probMap) ==
    MaxFrom(probMap, <<[label |-> null, probability |-> Num(bestProbInit)], 1, Len(probMap)>>)

-----------------------------------------------------------------------------
(* Configuration, lines 95-108 *)

\* process.env.X of a variable that is not set.
undefined == "undefined"

\* What x || y and !x take for true of a string or undefined.
Truthy(x) == x # undefined /\ x # ""

DefaultModelNotModelUrl == "default/ModelNotModelPredictor/url"
DefaultCivilianHybridUrl == "default/CivilianHybridPredictor/url"
DefaultSuperCommonUrl == "default/SuperModelCommonModelPredictor/url"

modelNotModelUrl ==
    IF Truthy(env.MODEL_NOT_MODEL_URL) THEN env.MODEL_NOT_MODEL_URL
    ELSE DefaultModelNotModelUrl
modelNotModelKey == env.MODEL_NOT_MODEL_KEY

civilianHybridUrl ==
    IF Truthy(env.CIVILIAN_HYBRID_URL) THEN env.CIVILIAN_HYBRID_URL
    ELSE DefaultCivilianHybridUrl
civilianHybridKey == env.CIVILIAN_HYBRID_KEY

superCommonUrl ==
    IF Truthy(env.SUPERMODEL_COMMON_URL) THEN env.SUPERMODEL_COMMON_URL
    ELSE DefaultSuperCommonUrl
superCommonKey == env.SUPERMODEL_COMMON_KEY

\* Only the stage-1 key checked up front.
KeysMissingStage1 == ~Truthy(modelNotModelKey)

\* Line 110.
KeysMissing ==
    ~Truthy(modelNotModelKey) \/ ~Truthy(civilianHybridKey) \/ ~Truthy(superCommonKey)

\* The environments the process may run in: each key unset, empty or set, and
\* the endpoint URLs all left to their defaults or all overridden.
Envs ==
    { [MODEL_NOT_MODEL_KEY |-> k1, CIVILIAN_HYBRID_KEY |-> k2, SUPERMODEL_COMMON_KEY |-> k3,
       MODEL_NOT_MODEL_URL |-> IF o THEN "env/stage1" ELSE undefined,
       CIVILIAN_HYBRID_URL |-> IF o THEN "env/civilianHybrid" ELSE undefined,
       SUPERMODEL_COMMON_URL |-> IF o THEN "env/superCommon" ELSE undefined] :
        k1 \in {undefined, "", "key-mnm"}, k2 \in {undefined, "", "key-ch"},
        k3 \in {undefined, "", "key-sc"}, o \in BOOLEAN }

-----------------------------------------------------------------------------
(* Inputs: request bodies and what the remote classifier answers *)

Urls == {"a.jpg", "b.jpg"}

UrlLists == UNION {[1..n -> Urls] : n \in 0..MaxImages}

\* req.body.imageUrls: absent, a string (not an array), or an array of URLs.
Bodies ==
    {[kind |-> "undefined", items |-> <<>>], [kind |-> "string", items |-> <<"a.jpg">>]}
        \cup {[kind |-> "array", items |-> l] : l \in UrlLists}

IsArray(b) == b.kind = "array"

Tag(id, name, prob) == [tagId |-> id, tagName |-> name, probability |-> Num(prob)]

\* resp.data of a successful call: a predictions array, or none.
Answers ==
    { [hasPredictions |-> TRUE,
       predictions |-> <<Tag("t1", "Model", 90), Tag("t2", "NOT Model", 10)>>],
      [hasPredictions |-> TRUE,
       predictions |-> <<Tag("t2", "NOT Model", 90), Tag("t1", "Model", 10)>>],
      [hasPredictions |-> TRUE, predictions |-> <<Tag("t3", "Tank", 95)>>],
      [hasPredictions |-> FALSE, predictions |-> <<>>] }

\* What axios.post rejects with: a non-success status with a body (response.data),
\* or a timeout, which has no response.
Errors ==
    { [data |-> "quota exceeded", message |-> "Request failed with status code 429"],
      [data |-> undefined, message |-> "timeout of 25000ms exceeded"] }

NoError == [data |-> undefined, message |-> ""]
NoData == [hasPredictions |-> FALSE, predictions |-> <<>>]

-----------------------------------------------------------------------------
(* batchPredict, lines 12-37 *)

\* Every URL posted twice, as a retry would.
batchPredictTwice(stage, imageUrls, endpointUrl, predictionKey) ==
    [j \in 1..(2 * Len(imageUrls)) |->
        LET i == ((j - 1) % Len(imageUrls)) + 1
        IN  [stage |-> stage, index |-> i, endpointUrl |-> endpointUrl,
             Url |-> imageUrls[i], PredictionKey |-> predictionKey,
             state |-> "pending", data |-> [hasPredictions |-> FALSE, predictions |-> <<>>],
             value |-> [imageUrl |-> imageUrls[i], predictions |-> <<>>],
             reason |-> [data |-> "undefined", message |-> ""]]]

\* Lines 13-24: one axios.post per image URL, all issued before any completes.
\* Each is a promise: pending, then fulfilled with value (data is the resp.data
\* it got) or rejected with reason.
batchPredict(stage, imageUrls, endpointUrl, predictionKey) ==
    [i \in 1..Len(imageUrls) |->
        [stage |-> stage, index |-> i, endpointUrl |-> endpointUrl,
         Url |-> imageUrls[i], PredictionKey |-> predictionKey,
         state |-> "pending", data |-> NoData,
         value |-> [imageUrl |-> imageUrls[i], predictions |-> <<>>],
         reason |-> NoError]]

\* Lines 26-33: what the per-image function returns for resp.data = data.
ImagePrediction(imageUrl, data) ==
    LET predictions == IF data.hasPredictions THEN data.predictions ELSE <<>>
    IN  [imageUrl |-> imageUrl,
         predictions |-> [j \in 1..Len(predictions) |->
                            [tagName |-> predictions[j].tagName,
                             probability |-> predictions[j].probability]]]

\* The calls of one stage among cs, in issue order.
StageCalls(cs, stage) == SelectSeq(cs, LAMBDA c : c.stage = stage)

\* A race: fulfilled with the first promise that is.
AnyFulfilled(cs, stage) == \E i \in 1..Len(cs) : cs[i].stage = stage /\ cs[i].state = "fulfilled"

\* Line 36, Promise.all: fulfilled once every promise is, with the values in
\* the order of the promises.
AllFulfilled(cs, stage) == \A i \in 1..Len(cs) : cs[i].stage = stage => cs[i].state = "fulfilled"

\* The values in reverse order.
JoinValueReversed(cs, stage) ==
    LET sc == StageCalls(cs, stage) IN [i \in 1..Len(sc) |-> sc[Len(sc) + 1 - i].value]

JoinValue(cs, stage) ==
    LET sc == StageCalls(cs, stage) IN [i \in 1..Len(sc) |-> sc[i].value]

-----------------------------------------------------------------------------
(* The /classify handler, lines 83-190 *)

NoResponse == [status |-> 0, body |-> [error |-> ""]]
NoLocals == [defined |-> FALSE]

\* res.status(status).json(json): the response goes out and the handler returns.
Respond(r, status, json) ==
    /\ resp' = [resp EXCEPT ![r] = [status |-> status, body |-> json]]
    /\ nresp' = [nresp EXCEPT ![r] = @ + 1]
    /\ pc' = [pc EXCEPT ![r] = "done"]

\* The emptiness test left out.
InvalidNotArray(imageUrls) == ~IsArray(imageUrls)

\* Line 87.
Invalid(imageUrls) == ~IsArray(imageUrls) \/ Len(imageUrls.items) = 0

\* The handler with the credential check ahead of the validation.
ClassifyKeysFirst(r, imageUrls) ==
    /\ pc[r] = "idle"
    /\ body' = [body EXCEPT ![r] = imageUrls]
    /\ IF KeysMissing
       THEN /\ Respond(r, 500, [error |-> "Prediction keys not set (MODEL_NOT_MODEL_KEY / CIVILIAN_HYBRID_KEY / SUPERMODEL_COMMON_KEY)"])
            /\ UNCHANGED <<calls, locals>>
       ELSE IF Invalid(imageUrls)
       THEN /\ Respond(r, 400, [error |-> "imageUrls must be a non-empty array of URLs"])
            /\ UNCHANGED <<calls, locals>>
       ELSE /\ calls' = [calls EXCEPT ![r] =
                            batchPredict(1, imageUrls.items, modelNotModelUrl, modelNotModelKey)]
            /\ pc' = [pc EXCEPT ![r] = "stage1"]
            /\ UNCHANGED <<locals, resp, nresp>>
    /\ UNCHANGED <<env, fnIn, fnOut, fnOp>>

\* Lines 83-125: a request arrives and the handler runs to its first await:
\* validation, the credential check, then the stage-1 calls.
Classify(r, imageUrls) ==
    /\ pc[r] = "idle"
    /\ body' = [body EXCEPT ![r] = imageUrls]
    /\ IF Invalid(imageUrls)
       THEN /\ Respond(r, 400, [error |-> "imageUrls must be a non-empty array of URLs"])
            /\ UNCHANGED <<calls, locals>>
       ELSE IF KeysMissing
       THEN /\ Respond(r, 500, [error |-> "Prediction keys not set (MODEL_NOT_MODEL_KEY / CIVILIAN_HYBRID_KEY / SUPERMODEL_COMMON_KEY)"])
            /\ UNCHANGED <<calls, locals>>
       ELSE /\ calls' = [calls EXCEPT ![r] =
                            batchPredict(1, imageUrls.items, modelNotModelUrl, modelNotModelKey)]
            /\ pc' = [pc EXCEPT ![r] = "stage1"]
            /\ UNCHANGED <<locals, resp, nresp>>
    /\ UNCHANGED <<env, fnIn, fnOut, fnOp>>

\* Lines 130-131: averages[label] ?? 0.  Neither "Model" nor "NOT Model" is
\* inherited from Object.prototype, so a label that is no own key reads undefined.
OrZero(averages, label) ==
    IF HasOwn(averages, label) THEN Own(averages, label) ELSE Zero

\* A strict comparison: a tie goes to "NOT Model".
IsModelStrict(modelProb, notModelProb) == JsGT(modelProb, notModelProb)

\* Line 133.
IsModel(modelProb, notModelProb) == JsGE(modelProb, notModelProb)

\* The SuperModel/Common endpoint called with the key of the other branch.
BranchMixed(useSuperCommon) ==
    [stage2Url     |-> IF useSuperCommon THEN superCommonUrl ELSE civilianHybridUrl,
     stage2Key     |-> civilianHybridKey,
     predictorName |-> IF useSuperCommon THEN "SuperModel/Common Model Predictor"
                                         ELSE "Civilian/Hybrid Predictor",
     branch        |-> IF useSuperCommon THEN "SuperModelCommonModel" ELSE "CivilianHybrid"]

\* Lines 139-146.
Branch(useSuperCommon) ==
    [stage2Url     |-> IF useSuperCommon THEN superCommonUrl ELSE civilianHybridUrl,
     stage2Key     |-> IF useSuperCommon THEN superCommonKey ELSE civilianHybridKey,
     predictorName |-> IF useSuperCommon THEN "SuperModel/Common Model Predictor"
                                         ELSE "Civilian/Hybrid Predictor",
     branch        |-> IF useSuperCommon THEN "SuperModelCommonModel" ELSE "CivilianHybrid"]

\* Lines 126-146: the handler's constants once stage 1 has resolved.
Stage1Locals(stage1PerImage) ==
    LET stage1Averages == averageByTag(stage1PerImage)
        modelProb      == OrZero(stage1Averages, "Model")
        notModelProb   == OrZero(stage1Averages, "NOT Model")
        isModel        == IsModel(modelProb, notModelProb)
        b              == Branch(isModel)
    IN  [defined |-> TRUE, stage1PerImage |-> stage1PerImage,
         stage1Averages |-> stage1Averages, modelProb |-> modelProb,
         notModelProb |-> notModelProb, isModel |-> isModel,
         stage2Url |-> b.stage2Url, stage2Key |-> b.stage2Key,
         predictorName |-> b.predictorName, branch |-> b.branch]

\* Lines 126-148: stage 1 resolved with the calls cs; the stage-2 calls go out.
Stage1Done(r, cs) ==
    LET l == Stage1Locals(JoinValue(cs, 1))
    IN  /\ locals' = [locals EXCEPT ![r] = l]
        /\ calls' = [calls EXCEPT ![r] =
                        cs \o batchPredict(2, body[r].items, l.stage2Url, l.stage2Key)]
        /\ pc' = [pc EXCEPT ![r] = "stage2"]
        /\ UNCHANGED <<resp, nresp>>

\* Line 153.
threshold == 95

\* An exclusive threshold.
ThresholdExceeded(probability) == JsGT(probability, Num(threshold))

\* Line 154.
ThresholdMet(probability) == JsGE(probability, Num(threshold))

\* Lines 156-179: the body of the 200 response.
ClassificationResult(imageUrls, l, stage2PerImage) ==
    LET stage2Averages == averageByTag(stage2PerImage)
        finalResult    == getMaxLabel(stage2Averages)
    IN  [input  |-> [imageCount |-> Len(imageUrls), imageUrls |-> imageUrls],
         stage1 |-> [predictor |-> "Model/NOT Model Predictor",
                     averages |-> l.stage1Averages,
                     perImage |-> l.stage1PerImage,
                     isModel |-> l.isModel,
                     modelProbability |-> l.modelProb,
                     notModelProbability |-> l.notModelProb],
         stage2 |-> [predictor |-> l.predictorName,
                     branch |-> l.branch,
                     averages |-> stage2Averages,
                     perImage |-> stage2PerImage,
                     finalLabel |-> finalResult.label,
                     finalLabelProbability |-> finalResult.probability,
                     highConfidence |-> ThresholdMet(finalResult.probability),
                     confidenceThreshold |-> Num(threshold)]]

\* The stage-1 results averaged a second time in place of the stage-2 results.
Stage2DoneFromStage1(r, cs) ==
    /\ Respond(r, 200, ClassificationResult(body[r].items, locals[r], JoinValue(cs, 1)))
    /\ calls' = [calls EXCEPT ![r] = cs]
    /\ UNCHANGED locals

\* The stage-1 constants kept in one place for all requests (that of "r1").
Stage2DoneShared(r, cs) ==
    /\ Respond(r, 200, ClassificationResult(body[r].items,
                           IF locals["r1"].defined THEN locals["r1"] ELSE locals[r],
                           JoinValue(cs, 2)))
    /\ calls' = [calls EXCEPT ![r] = cs]
    /\ UNCHANGED locals

\* Lines 149-179: stage 2 resolved with the calls cs; res.json sends 200.
Stage2Done(r, cs) ==
    /\ Respond(r, 200, ClassificationResult(body[r].items, locals[r], JoinValue(cs, 2)))
    /\ calls' = [calls EXCEPT ![r] = cs]
    /\ UNCHANGED locals

\* The error body never looked at.
DetailsMessageOnly(err) == IF err.message # "" THEN err.message ELSE "Unknown error"

\* Lines 183 and 187: err?.response?.data || err.message || "Unknown error".
Details(err) ==
    IF Truthy(err.data) THEN err.data
    ELSE IF err.message # "" THEN err.message
    ELSE "Unknown error"

\* Lines 185-188.
ErrorResponse(err) == [error |-> "Internal server error", details |-> Details(err)]

\* A stage-2 rejection that reaches nobody.
AwaitingStage1Only(p, stage) == p = "stage1" /\ stage = 1

\* A handler that would still be listening after it has answered.
AwaitingAny(p, stage) == p \in {"stage1", "stage2", "done"} /\ stage \in {1, 2}

\* The await the handler of a request at pc is suspended on is the join of
\* this stage's calls.
Awaiting(p, stage) == (p = "stage1" /\ stage = 1) \/ (p = "stage2" /\ stage = 2)

\* A pending call gets its answer (lines 26-33).  When it was the last one its
\* join was waiting for, the join is fulfilled and the handler runs on.
Fulfil(r, k, data) ==
    /\ k \in 1..Len(calls[r])
    /\ calls[r][k].state = "pending"
    /\ LET c  == calls[r][k]
           cs == [calls[r] EXCEPT ![k].state = "fulfilled", ![k].data = data,
                                  ![k].value = ImagePrediction(c.Url, data)]
       IN  IF Awaiting(pc[r], c.stage) /\ AllFulfilled(cs, c.stage)
           THEN IF c.stage = 1 THEN Stage1Done(r, cs) ELSE Stage2Done(r, cs)
           ELSE /\ calls' = [calls EXCEPT ![r] = cs]
                /\ UNCHANGED <<pc, locals, resp, nresp>>
    /\ UNCHANGED <<env, body, fnIn, fnOut, fnOp>>

\* A join that would report the failed call of the lowest position: a failure
\* at a position before the one reported takes its place.
RejectLowestPosition(r, k, err) ==
    /\ k \in 1..Len(calls[r])
    /\ calls[r][k].state = "pending"
    /\ calls' = [calls EXCEPT ![r][k].state = "rejected", ![r][k].reason = err]
    /\ IF \/ Awaiting(pc[r], calls[r][k].stage)
          \/ \E j \in (k + 1)..Len(calls[r]) :
                calls[r][j].state = "rejected" /\ calls[r][j].stage = calls[r][k].stage
       THEN /\ resp' = [resp EXCEPT ![r] = [status |-> 500, body |-> ErrorResponse(err)]]
            /\ nresp' = [nresp EXCEPT ![r] = 1]
            /\ pc' = [pc EXCEPT ![r] = "done"]
       ELSE UNCHANGED <<pc, resp, nresp>>
    /\ UNCHANGED <<env, body, locals, fnIn, fnOut, fnOp>>

\* A pending call fails.  The first rejection rejects the join (line 36), the
\* await throws and the catch of lines 180-189 answers; a rejection that comes
\* after the join was settled reaches nobody.
Reject(r, k, err) ==
    /\ k \in 1..Len(calls[r])
    /\ calls[r][k].state = "pending"
    /\ calls' = [calls EXCEPT ![r][k].state = "rejected", ![r][k].reason = err]
    /\ IF Awaiting(pc[r], calls[r][k].stage)
       THEN Respond(r, 500, ErrorResponse(err))
       ELSE UNCHANGED <<pc, resp, nresp>>
    /\ UNCHANGED <<env, body, locals, fnIn, fnOut, fnOp>>

-----------------------------------------------------------------------------
(* Specification of the service: one request, every interleaving of its calls *)

InitHandlers ==
    /\ pc = [r \in Reqs |-> "idle"]
    /\ body = [r \in Reqs |-> [kind |-> "undefined", items |-> <<>>]]
    /\ calls = [r \in Reqs |-> <<>>]
    /\ locals = [r \in Reqs |-> NoLocals]
    /\ resp = [r \in Reqs |-> NoResponse]
    /\ nresp = [r \in Reqs |-> 0]

Init ==
    /\ env \in Envs
    /\ InitHandlers
    /\ fnIn = <<>>
    /\ fnOut = <<>>
    /\ fnOp = "none"

Next ==
    \/ \E b \in Bodies : Classify("r1", b)
    \/ \E k \in 1..(2 * MaxImages), a \in Answers : Fulfil("r1", k, a)
    \/ \E k \in 1..(2 * MaxImages), e \in Errors : Reject("r1", k, e)

Spec == Init /\ [][Next]_vars

-----------------------------------------------------------------------------
(* Specification of the pure functions: averageByTag on every batch of up   *)
(* to MaxImages images, then getMaxLabel on the averages it returned.       *)

\* Tag names of the batches: a plain one, one that is an array index and one
\* that Object.prototype defines.
FnTags == {"Tank", "7", "constructor", ProtoKey}

FnProbabilities == {0, 50}

FnPredictions == [tagName : FnTags, probability : {Num(x) : x \in FnProbabilities}]

\* The predictions of one image: none, one or two.
FnPredictionLists == {<<>>} \cup [1..1 -> FnPredictions] \cup [1..2 -> FnPredictions]

FnImages == {[imageUrl |-> "a.jpg", predictions |-> l] : l \in FnPredictionLists}

Batches == UNION {[1..n -> FnImages] : n \in 0..MaxImages}

InitFn ==
    /\ env = CHOOSE e \in Envs : TRUE
    /\ InitHandlers
    /\ fnIn \in Batches
    /\ fnOut = <<>>
    /\ fnOp = "none"

\* averageByTag(fnIn)
ApplyAverageByTag ==
    /\ fnOp = "none"
    /\ fnOut' = averageByTag(fnIn)
    /\ fnOp' = "averageByTag"
    /\ UNCHANGED <<env, pc, body, calls, locals, resp, nresp, fnIn>>

\* getMaxLabel(averages), as lines 149-150 chain the two.
ApplyGetMaxLabel ==
    /\ fnOp = "averageByTag"
    /\ fnIn' = fnOut
    /\ fnOut' = getMaxLabel(fnOut)
    /\ fnOp' = "getMaxLabel"
    /\ UNCHANGED <<env, pc, body, calls, locals, resp, nresp>>

NextFn == ApplyAverageByTag \/ ApplyGetMaxLabel

SpecFn == InitFn /\ [][NextFn]_vars

-----------------------------------------------------------------------------
(* Claims *)

CallsOf(r, stage) == {k \in 1..Len(calls[r]) : calls[r][k].stage = stage}

\* The value of label in an averages object, 0 when the label is no key of it.
ValueOr0(averages, label) ==
    IF \E i \in 1..Len(averages) : averages[i][1] = label
    THEN averages[CHOOSE i \in 1..Len(averages) : averages[i][1] = label][2]
    ELSE Num(0)

\* C1: once any per-image call of a request has failed, in stage 1 or in stage
\* 2, the request is answered 500 with a body of exactly {error, details}: no
\* averages, predictions, branch or label, whatever the other calls did.
C1_FailureIs500NoPartial ==
    \A r \in Reqs :
        (\E k \in 1..Len(calls[r]) : calls[r][k].state = "rejected")
            => /\ resp[r].status = 500
               /\ DOMAIN resp[r].body = {"error", "details"}
               /\ resp[r].body.error = "Internal server error"
               /\ nresp[r] = 1

\* A stage-2 call failed after a sibling had succeeded, and the answer is 500.
C1_Witness ==
    /\ \E k \in CallsOf("r1", 2) : calls["r1"][k].state = "rejected"
    /\ \E k \in CallsOf("r1", 2) : calls["r1"][k].state = "fulfilled"
    /\ resp["r1"].status = 500

\* C2: a request has stage-2 calls only when every one of its stage-1 calls has
\* succeeded and the stage-1 averages have been computed from their results.
C2_StagesSequential ==
    \A r \in Reqs :
        CallsOf(r, 2) # {}
            => /\ \A k \in CallsOf(r, 1) : calls[r][k].state = "fulfilled"
               /\ Cardinality(CallsOf(r, 1)) = Len(body[r].items)
               /\ locals[r].defined
               /\ locals[r].stage1Averages
                    = averageByTag([i \in 1..Len(body[r].items) |-> calls[r][i].value])

\* Stage 2 of a two-image request is under way.
C2_Witness ==
    /\ Len(body["r1"].items) = 2
    /\ \E k \in CallsOf("r1", 2) : calls["r1"][k].state = "pending"
    /\ \E k \in CallsOf("r1", 2) : calls["r1"][k].state = "fulfilled"

\* C3: isModel is (modelProbability >= notModelProbability), the two being the
\* stage-1 averages of "Model" and "NOT Model", 0 for a label the averages do
\* not hold; a tie gives Model, and the branch follows from isModel.
C3_BranchDecision ==
    \A r \in Reqs :
        locals[r].defined =>
            LET m == ValueOr0(locals[r].stage1Averages, "Model")
                n == ValueOr0(locals[r].stage1Averages, "NOT Model")
            IN  /\ locals[r].modelProb = m
                /\ locals[r].notModelProb = n
                /\ locals[r].isModel = ~Less(m, n)
                /\ locals[r].branch =
                      IF ~Less(m, n) THEN "SuperModelCommonModel" ELSE "CivilianHybrid"
                /\ resp[r].status = 200 =>
                      /\ resp[r].body.stage1.isModel = locals[r].isModel
                      /\ resp[r].body.stage1.modelProbability = m
                      /\ resp[r].body.stage1.notModelProbability = n
                      /\ resp[r].body.stage2.branch = locals[r].branch

\* A tie at 0.5 took the SuperModel/Common branch.
C3_Witness ==
    /\ locals["r1"].defined
    /\ locals["r1"].modelProb = Num(50)
    /\ locals["r1"].notModelProb = Num(50)
    /\ locals["r1"].branch = "SuperModelCommonModel"

\* The two branches: isModel, endpoint, credential, predictor name, branch.
BranchTable ==
    { <<TRUE, superCommonUrl, superCommonKey,
        "SuperModel/Common Model Predictor", "SuperModelCommonModel">>,
      <<FALSE, civilianHybridUrl, civilianHybridKey,
        "Civilian/Hybrid Predictor", "CivilianHybrid">> }

\* C4: every stage-2 call of a request goes to the endpoint of the one branch
\* isModel selects, with that endpoint's credential, and the predictor name and
\* branch reported are those of the same branch.
C4_TwoWaySwitch ==
    \A r \in Reqs :
        CallsOf(r, 2) # {} =>
            \E b \in BranchTable :
                /\ b[1] = locals[r].isModel
                /\ \A k \in CallsOf(r, 2) :
                      /\ calls[r][k].endpointUrl = b[2]
                      /\ calls[r][k].PredictionKey = b[3]
                /\ resp[r].status = 200 =>
                      /\ resp[r].body.stage2.predictor = b[4]
                      /\ resp[r].body.stage2.branch = b[5]
                      /\ resp[r].body.stage1.isModel = b[1]

\* A request answered 200 from the Civilian/Hybrid branch, and one from the
\* other branch exists too (see C3_Witness).
C4_Witness ==
    /\ resp["r1"].status = 200
    /\ ~locals["r1"].isModel
    /\ Len(body["r1"].items) = 2
    /\ \A k \in CallsOf("r1", 2) : calls["r1"][k].PredictionKey = "key-ch"

\* Every prediction of a batch, image after image.
RECURSIVE AllPredictions(_, _)
AllPredictions(perImage, i) ==
    IF i > Len(perImage) THEN <<>>
    ELSE perImage[i].predictions \o AllPredictions(perImage, i + 1)

\* sum plus the probabilities that the predictions ps, from the j-th on, give
\* label, added one after the other.
RECURSIVE SumOf(_, _, _, _)
SumOf(sum, ps, label, j) ==
    IF j > Len(ps) THEN sum
    ELSE SumOf(IF ps[j].tagName = label THEN JsAdd(sum, ps[j].probability) ELSE sum,
               ps, label, j + 1)

LabelsSeen(perImage) ==
    LET ps == AllPredictions(perImage, 1) IN {ps[j].tagName : j \in 1..Len(ps)}

\* The entry <<label, q>> of averages is the sum of the label's probabilities
\* over the batch divided by the number of images.
IsBatchAverage(perImage, entry) ==
    /\ ~IsNaN(entry[2])
    /\ Len(perImage) > 0
    /\ entry[2] = JsDiv(SumOf(Zero, AllPredictions(perImage, 1), entry[1], 1), Len(perImage))

\* C5: the keys of averageByTag's result are exactly the labels seen in the
\* batch, and the value of each label is the sum of its probabilities over the
\* images divided by the number of images.
C5_AverageIsSumOverImages ==
    fnOp = "averageByTag" =>
        /\ KeySet(fnOut) = LabelsSeen(fnIn)
        /\ Len(fnOut) = Cardinality(LabelsSeen(fnIn))
        /\ \A i \in 1..Len(fnOut) : IsBatchAverage(fnIn, fnOut[i])

\* What does hold of averageByTag: C5 for the labels Object.prototype does not
\* define, NaN for those it defines, and no key for __proto__.
C5_ExceptInheritedNames ==
    fnOp = "averageByTag" =>
        /\ KeySet(fnOut) = LabelsSeen(fnIn) \ {ProtoKey}
        /\ Len(fnOut) = Cardinality(LabelsSeen(fnIn) \ {ProtoKey})
        /\ \A i \in 1..Len(fnOut) :
              IF fnOut[i][1] \in ObjectPrototypeKeys
              THEN fnOut[i][2] = NaN
              ELSE IsBatchAverage(fnIn, fnOut[i])

\* A label held by one image of two was divided by two.
C5_DivisorIsImageCount ==
    /\ fnOp = "averageByTag"
    /\ Len(fnIn) = 2
    /\ fnIn[2].predictions = <<>>
    /\ fnIn[1].predictions = <<[tagName |-> "Tank", probability |-> Num(50)]>>
    /\ fnOut = << <<"Tank", Num(25)>> >>

\* C6: for a non-empty mapping of labels to probabilities getMaxLabel returns
\* the greatest value and a key that holds it; for the empty mapping it
\* returns label null with probability -1, below every probability.
C6_MaxLabel ==
    fnOp = "getMaxLabel" =>
        IF fnIn = <<>>
        THEN /\ fnOut.label = null
             /\ fnOut.probability = Num(-100)
        ELSE (\A i \in 1..Len(fnIn) : ~IsNaN(fnIn[i][2]) /\ ~Less(fnIn[i][2], Num(0))) =>
                /\ \E i \in 1..Len(fnIn) : fnIn[i] = <<fnOut.label, fnOut.probability>>
                /\ \A i \in 1..Len(fnIn) :
                      ~Less(fnOut.probability, fnIn[i][2])

\* The greatest of two values is held by the last key.
C6_Witness ==
    /\ fnOp = "getMaxLabel"
    /\ Len(fnIn) = 2
    /\ fnIn[1][2] = Num(0)
    /\ fnIn[2][2] = Num(50)
    /\ fnOut.label = fnIn[2][1]

\* C7: a request whose imageUrls is missing, not a list or an empty list is
\* answered 400 with the message about imageUrls, and no prediction call is made.
C7_Validation400 ==
    \A r \in Reqs :
        (pc[r] # "idle" /\ (body[r].kind # "array" \/ body[r].items = <<>>))
            => /\ resp[r].status = 400
               /\ resp[r].body = [error |-> "imageUrls must be a non-empty array of URLs"]
               /\ calls[r] = <<>>
               /\ pc[r] = "done"

\* An empty list was answered 400 by a process that has all its keys.
C7_Witness ==
    /\ body["r1"] = [kind |-> "array", items |-> <<>>]
    /\ resp["r1"].status = 400
    /\ \A k \in {env.MODEL_NOT_MODEL_KEY, env.CIVILIAN_HYBRID_KEY, env.SUPERMODEL_COMMON_KEY} :
          k \notin {undefined, ""}

\* A key of the environment that is not set, or set to the empty string.
Unconfigured(key) == key \in {undefined, ""}

\* C8: a request with a non-empty imageUrls list is answered 500 with no
\* prediction call made when any of the three keys is unconfigured, also when
\* the key is that of a branch the request would not have taken.
C8_MissingKey500 ==
    \A r \in Reqs :
        (/\ pc[r] # "idle"
         /\ body[r].kind = "array" /\ body[r].items # <<>>
         /\ \/ Unconfigured(env.MODEL_NOT_MODEL_KEY)
            \/ Unconfigured(env.CIVILIAN_HYBRID_KEY)
            \/ Unconfigured(env.SUPERMODEL_COMMON_KEY))
            => /\ resp[r].status = 500
               /\ DOMAIN resp[r].body = {"error"}
               /\ calls[r] = <<>>
               /\ pc[r] = "done"

\* Only the Civilian/Hybrid key is missing, and the request is answered 500.
C8_Witness ==
    /\ body["r1"].kind = "array" /\ body["r1"].items # <<>>
    /\ env.MODEL_NOT_MODEL_KEY = "key-mnm"
    /\ env.SUPERMODEL_COMMON_KEY = "key-sc"
    /\ env.CIVILIAN_HYBRID_KEY = undefined
    /\ resp["r1"].status = 500

\* perImage is what the calls of one stage of request r returned: one entry per
\* input URL, the i-th for the i-th URL, holding the tagName and probability of
\* each prediction the i-th call was answered, none when the answer had no
\* predictions list.
InInputOrder(perImage, r, stage) ==
    /\ Len(perImage) = Len(body[r].items)
    /\ \A i \in 1..Len(perImage) :
          /\ perImage[i].imageUrl = body[r].items[i]
          /\ \E k \in CallsOf(r, stage) :
                /\ calls[r][k].index = i
                /\ calls[r][k].Url = body[r].items[i]
                /\ calls[r][k].state = "fulfilled"
                /\ LET d == calls[r][k].data
                   IN  IF d.hasPredictions
                       THEN /\ Len(perImage[i].predictions) = Len(d.predictions)
                            /\ \A j \in 1..Len(d.predictions) :
                                  /\ perImage[i].predictions[j].tagName = d.predictions[j].tagName
                                  /\ perImage[i].predictions[j].probability
                                       = d.predictions[j].probability
                                  /\ DOMAIN perImage[i].predictions[j] = {"tagName", "probability"}
                       ELSE perImage[i].predictions = <<>>

\* C9: when every call of a batch succeeds, batchPredict returns one entry per
\* input URL in input order, in whatever order the calls completed; an answer
\* without a predictions list gives an empty predictions sequence, no error.
C9_InputOrder ==
    \A r \in Reqs :
        /\ locals[r].defined => InInputOrder(locals[r].stage1PerImage, r, 1)
        /\ resp[r].status = 200 =>
              /\ InInputOrder(resp[r].body.stage1.perImage, r, 1)
              /\ InInputOrder(resp[r].body.stage2.perImage, r, 2)
        /\ \A stage \in {1, 2} :
              (CallsOf(r, stage) # {} /\ AllFulfilled(calls[r], stage))
                  => IF stage = 1 THEN locals[r].defined ELSE resp[r].status = 200

\* Stage 1 returned two different entries for two different URLs, the second
\* from an answer without a predictions list, and in stage 2 the second call
\* has completed before the first.
C9_Witness ==
    /\ body["r1"].items = <<"a.jpg", "b.jpg">>
    /\ locals["r1"].defined
    /\ locals["r1"].stage1PerImage[1].predictions # <<>>
    /\ ~calls["r1"][2].data.hasPredictions
    /\ locals["r1"].stage1PerImage[2].predictions = <<>>
    /\ \E k \in CallsOf("r1", 2) : calls["r1"][k].index = 2 /\ calls["r1"][k].state = "fulfilled"
    /\ \E k \in CallsOf("r1", 2) : calls["r1"][k].index = 1 /\ calls["r1"][k].state = "pending"

\* The greatest value of an averages object and a key holding it, the numbers
\* among its values taken alone; null and -1 when it has none.
IsMaxOf(averages, label, probability) ==
    LET nums == {i \in 1..Len(averages) : ~IsNaN(averages[i][2])}
    IN  IF nums = {}
        THEN label = null /\ probability = Num(-100)
        ELSE /\ \E i \in nums : averages[i] = <<label, probability>>
             /\ \A i \in nums : ~Less(probability, averages[i][2])

\* C10: when both stages succeed the answer is 200 with the final label and
\* probability as getMaxLabel gave them, and highConfidence is true exactly
\* when that probability is >= 0.95; a lower probability, the -1 of the empty
\* mapping included, changes nothing else.
C10_ThresholdInformational ==
    \A r \in Reqs :
        /\ (CallsOf(r, 2) # {} /\ AllFulfilled(calls[r], 2)) => resp[r].status = 200
        /\ resp[r].status = 200 =>
              LET s2 == resp[r].body.stage2
              IN  /\ IsMaxOf(s2.averages, s2.finalLabel, s2.finalLabelProbability)
                  /\ s2.highConfidence = ~Less(s2.finalLabelProbability, Num(95))
                  /\ s2.confidenceThreshold = Num(95)
                  /\ DOMAIN resp[r].body = {"input", "stage1", "stage2"}
                  /\ nresp[r] = 1

\* A 200 answer whose stage-2 averages are empty: label null, probability -1,
\* highConfidence false.
C10_Witness ==
    /\ resp["r1"].status = 200
    /\ resp["r1"].body.stage2.averages = <<>>
    /\ resp["r1"].body.stage2.finalLabel = null
    /\ resp["r1"].body.stage2.finalLabelProbability = Num(-100)
    /\ ~resp["r1"].body.stage2.highConfidence

\* A 200 answer whose final probability is exactly 0.95, with highConfidence true.
C10_AtThreshold ==
    /\ resp["r1"].status = 200
    /\ resp["r1"].body.stage2.finalLabelProbability = Num(95)
    /\ resp["r1"].body.stage2.highConfidence

-----------------------------------------------------------------------------
(* Specification of successful requests: a process with every key set, and  *)
(* a classifier that answers every call, with the answers of the end-to-end *)
(* scenario among them.                                                     *)

ConfiguredEnv ==
    [MODEL_NOT_MODEL_KEY |-> "key-mnm", CIVILIAN_HYBRID_KEY |-> "key-ch",
     SUPERMODEL_COMMON_KEY |-> "key-sc", MODEL_NOT_MODEL_URL |-> undefined,
     CIVILIAN_HYBRID_URL |-> undefined, SUPERMODEL_COMMON_URL |-> undefined]

ScenarioAnswers ==
    { [hasPredictions |-> TRUE,
       predictions |-> <<Tag("t1", "Model", 90), Tag("t2", "NOT Model", 10)>>],
      [hasPredictions |-> TRUE,
       predictions |-> <<Tag("t1", "Model", 80), Tag("t2", "NOT Model", 20)>>],
      [hasPredictions |-> TRUE,
       predictions |-> <<Tag("t2", "NOT Model", 90), Tag("t1", "Model", 10)>>],
      [hasPredictions |-> TRUE, predictions |-> <<Tag("t3", "Tank", 97)>>],
      [hasPredictions |-> TRUE, predictions |-> <<Tag("t3", "Tank", 93)>>] }

InitE2E ==
    /\ env = ConfiguredEnv
    /\ InitHandlers
    /\ fnIn = <<>>
    /\ fnOut = <<>>
    /\ fnOp = "none"

NextE2E ==
    \/ \E b \in Bodies : Classify("r1", b)
    \/ \E k \in 1..(2 * MaxImages), a \in ScenarioAnswers : Fulfil("r1", k, a)

SpecE2E == InitE2E /\ [][NextE2E]_vars

\* The predictions of the scenario, as the response reports them.
P(name, prob) == [tagName |-> name, probability |-> Num(prob)]

\* C11: the 200 response is the composition of the stages over the whole input
\* list: stage1.averages is averageByTag of the stage-1 results of all input
\* images, the branch is the one those averages decide, stage2.averages is
\* averageByTag of the results that branch's endpoint gave for all input
\* images, and the final label and probability are getMaxLabel of
\* stage2.averages.  The scenario of the specification gives branch
\* SuperModelCommonModel, "Tank", 0.95 and highConfidence true.
C11_EndToEnd ==
    \A r \in Reqs :
        resp[r].status = 200 =>
            LET s1 == resp[r].body.stage1
                s2 == resp[r].body.stage2
                n  == Len(body[r].items)
                m  == ValueOr0(s1.averages, "Model")
                nm == ValueOr0(s1.averages, "NOT Model")
                b  == CHOOSE x \in BranchTable : x[1] = ~Less(m, nm)
            IN  /\ resp[r].body.input = [imageCount |-> n, imageUrls |-> body[r].items]
                /\ Len(calls[r]) = 2 * n
                /\ s1.perImage = [i \in 1..n |-> calls[r][i].value]
                /\ \A i \in 1..n :
                      /\ calls[r][i].stage = 1 /\ calls[r][i].Url = body[r].items[i]
                      /\ calls[r][i].endpointUrl = modelNotModelUrl
                      /\ calls[r][n + i].stage = 2 /\ calls[r][n + i].Url = body[r].items[i]
                      /\ calls[r][n + i].endpointUrl = b[2]
                /\ s1.averages = averageByTag(s1.perImage)
                /\ s2.branch = b[5]
                /\ s2.perImage = [i \in 1..n |-> calls[r][n + i].value]
                /\ s2.averages = averageByTag(s2.perImage)
                /\ [label |-> s2.finalLabel, probability |-> s2.finalLabelProbability]
                     = getMaxLabel(s2.averages)
                /\ IsMaxOf(s2.averages, s2.finalLabel, s2.finalLabelProbability)
                /\ (/\ n = 2
                    /\ s1.perImage[1].predictions = <<P("Model", 90), P("NOT Model", 10)>>
                    /\ s1.perImage[2].predictions = <<P("Model", 80), P("NOT Model", 20)>>
                    /\ s2.perImage[1].predictions = <<P("Tank", 97)>>
                    /\ s2.perImage[2].predictions = <<P("Tank", 93)>>)
                   => /\ s1.isModel
                      /\ s2.branch = "SuperModelCommonModel"
                      /\ s2.averages = << <<"Tank", Num(95)>> >>
                      /\ s2.finalLabel = "Tank"
                      /\ s2.finalLabelProbability = Num(95)
                      /\ s2.highConfidence

\* The scenario: a.jpg and b.jpg, {Model 0.9, NOT Model 0.1} and {Model 0.8,
\* NOT Model 0.2} in stage 1, {Tank 0.97} and {Tank 0.93} in stage 2.
C11_Witness ==
    /\ resp["r1"].status = 200
    /\ body["r1"].items = <<"a.jpg", "b.jpg">>
    /\ resp["r1"].body.stage1.perImage[1].predictions = <<P("Model", 90), P("NOT Model", 10)>>
    /\ resp["r1"].body.stage1.perImage[2].predictions = <<P("Model", 80), P("NOT Model", 20)>>
    /\ resp["r1"].body.stage2.perImage[1].predictions = <<P("Tank", 97)>>
    /\ resp["r1"].body.stage2.perImage[2].predictions = <<P("Tank", 93)>>
    /\ resp["r1"].body.stage2.finalLabel = "Tank"
    /\ resp["r1"].body.stage2.highConfidence

\* C12: no retry and no fallback.  A request makes at most one stage-1 call and
\* at most one stage-2 call per entry of its imageUrls, at most 2N calls in
\* all; once a stage-1 call has failed it has no stage-2 call; and its stage-2
\* calls all go to one endpoint, also after one of them has failed.
C12_NoRetryNoFallback ==
    \A r \in Reqs :
        LET n == Len(body[r].items)
        IN  /\ Len(calls[r]) <= 2 * n
            /\ \A stage \in {1, 2}, i \in 1..n :
                  Cardinality({k \in CallsOf(r, stage) : calls[r][k].index = i}) <= 1
            /\ \A k \in 1..Len(calls[r]) :
                  /\ calls[r][k].stage \in {1, 2}
                  /\ calls[r][k].index \in 1..n
                  /\ calls[r][k].Url = body[r].items[calls[r][k].index]
                  /\ calls[r][k].stage = 1 => calls[r][k].endpointUrl = modelNotModelUrl
            /\ (\E k \in CallsOf(r, 1) : calls[r][k].state = "rejected") => CallsOf(r, 2) = {}
            /\ \A k1, k2 \in CallsOf(r, 2) : calls[r][k1].endpointUrl = calls[r][k2].endpointUrl
            /\ pc[r] = "done" /\ resp[r].status # 200 =>
                  \/ calls[r] = <<>>
                  \/ \E k \in 1..Len(calls[r]) : calls[r][k].state = "rejected"

\* A stage-2 call of a two-image request failed, the request is answered 500
\* and every call has ended: four calls were made, two to each endpoint.
C12_Witness ==
    /\ Len(body["r1"].items) = 2
    /\ resp["r1"].status = 500
    /\ Len(calls["r1"]) = 4
    /\ \E k \in CallsOf("r1", 2) : calls["r1"][k].state = "rejected"
    /\ \A k \in 1..4 : calls["r1"][k].state # "pending"

\* What the claim of C13 expects as details for the error err of a failed call:
\* the body of the remote error response when there is one, else the message
\* of the error.
ExpectedDetails(err) ==
    IF err.data \notin {undefined, ""} THEN err.data ELSE err.message

\* C13: when a call of a request has failed the response is 500 and its details
\* are the remote error body of a failed call, verbatim, when that call got
\* one, and the message of its error otherwise.
C13_DetailsOfFailure ==
    \A r \in Reqs :
        (\E k \in 1..Len(calls[r]) : calls[r][k].state = "rejected")
            => /\ resp[r].status = 500
               /\ \E k \in 1..Len(calls[r]) :
                     /\ calls[r][k].state = "rejected"
                     /\ resp[r].body.details = ExpectedDetails(calls[r][k].reason)
               /\ resp[r].body.details # ""

\* The only failed call got a 429 with a body, and details is that body.
C13_Witness ==
    /\ \E k \in 1..Len(calls["r1"]) : calls["r1"][k].state = "rejected"
    /\ resp["r1"].status = 500
    /\ resp["r1"].body.details = "quota exceeded"
    /\ \A k \in 1..Len(calls["r1"]) :
          calls["r1"][k].state = "rejected" => calls["r1"][k].reason.data = "quota exceeded"

\* The only failed call timed out, and details is the message of the timeout.
C13_WitnessNoBody ==
    /\ \E k \in 1..Len(calls["r1"]) : calls["r1"][k].state = "rejected"
    /\ resp["r1"].status = 500
    /\ resp["r1"].body.details = "timeout of 25000ms exceeded"
    /\ \A k \in 1..Len(calls["r1"]) :
          calls["r1"][k].state = "rejected" => calls["r1"][k].reason.data = undefined

-----------------------------------------------------------------------------
(* Specification of two requests in flight at once: their handlers and the  *)
(* completions of their calls interleave in every order.                    *)

ConcBodies ==
    { [kind |-> "array", items |-> <<>>],
      [kind |-> "array", items |-> <<"a.jpg">>],
      [kind |-> "array", items |-> <<"a.jpg", "b.jpg">>] }

ConcAnswers ==
    { [hasPredictions |-> TRUE,
       predictions |-> <<Tag("t1", "Model", 90), Tag("t2", "NOT Model", 10)>>],
      [hasPredictions |-> TRUE,
       predictions |-> <<Tag("t2", "NOT Model", 90), Tag("t1", "Model", 10)>>],
      [hasPredictions |-> TRUE, predictions |-> <<Tag("t3", "Tank", 95)>>] }

ConcErrors == { [data |-> undefined, message |-> "timeout of 25000ms exceeded"] }

InitConc ==
    /\ env \in {ConfiguredEnv, [ConfiguredEnv EXCEPT !.CIVILIAN_HYBRID_KEY = undefined]}
    /\ InitHandlers
    /\ fnIn = <<>>
    /\ fnOut = <<>>
    /\ fnOp = "none"

NextConc ==
    \E r \in Reqs :
        \/ \E b \in ConcBodies : Classify(r, b)
        \/ \E k \in 1..Len(calls[r]), a \in ConcAnswers : Fulfil(r, k, a)
        \/ \E k \in 1..Len(calls[r]), e \in ConcErrors : Reject(r, k, e)

SpecConc == InitConc /\ [][NextConc]_vars

-----------------------------------------------------------------------------
(* Specification of the service where every call ends *)

\* The k-th call of a request ends: with an error, of which the expiry of the
\* timeout of line 22 is one, or with an answer.
CallSettles(r, k) ==
    \/ \E e \in Errors : Reject(r, k, e)
    \/ \E a \in ConcAnswers : Fulfil(r, k, a)

NextLive ==
    \/ \E b \in Bodies : Classify("r1", b)
    \/ \E k \in 1..(2 * MaxImages) : CallSettles("r1", k)

\* No call stays in flight forever: the timeout of line 22 ends a call the
\* remote side leaves unanswered.
SpecLive ==
    /\ Init
    /\ [][NextLive]_vars
    /\ \A k \in 1..(2 * MaxImages) : WF_vars(CallSettles("r1", k))


\* The response request r gets when it runs alone in this environment, its
\* body being body[r] and the remote answers those its own calls got.
IsResponseAlone(r, response) ==
    LET n == Len(body[r].items)
    IN  IF body[r].kind # "array" \/ n = 0
        THEN response = [status |-> 400,
                         body |-> [error |-> "imageUrls must be a non-empty array of URLs"]]
        ELSE IF \E key \in {env.MODEL_NOT_MODEL_KEY, env.CIVILIAN_HYBRID_KEY,
                             env.SUPERMODEL_COMMON_KEY} : key \in {undefined, ""}
        THEN response.status = 500 /\ DOMAIN response.body = {"error"} /\ calls[r] = <<>>
        ELSE IF \E k \in 1..Len(calls[r]) : calls[r][k].state = "rejected"
        THEN \E k \in 1..Len(calls[r]) :
                /\ calls[r][k].state = "rejected"
                /\ response = [status |-> 500,
                               body |-> [error |-> "Internal server error",
                                         details |-> ExpectedDetails(calls[r][k].reason)]]
        ELSE /\ Len(calls[r]) = 2 * n
             /\ response = [status |-> 200,
                            body |-> ClassificationResult(
                                        body[r].items,
                                        Stage1Locals([i \in 1..n |-> calls[r][i].value]),
                                        [i \in 1..n |-> calls[r][n + i].value])]

\* C14: with two requests in flight, in every interleaving, the response of
\* each is the one it gets alone from the same remote answers; it owes nothing
\* to the other request, whether that one succeeded or failed.
C14_RequestsIndependent ==
    \A r \in Reqs :
        /\ pc[r] = "done" => IsResponseAlone(r, resp[r])
        /\ pc[r] # "done" => resp[r] = NoResponse
        /\ locals[r].defined =>
              locals[r] = Stage1Locals([i \in 1..Len(body[r].items) |-> calls[r][i].value])

\* Request r1 was answered 500 and has a call still in flight, request r2,
\* whose stage 1 took the other branch than that of r1, was answered 200.
C14_Witness ==
    /\ resp["r1"].status = 500
    /\ locals["r1"].defined /\ locals["r1"].isModel
    /\ \E k \in 1..Len(calls["r1"]) : calls["r1"][k].state = "pending"
    /\ resp["r2"].status = 200
    /\ ~locals["r2"].isModel

\* The place of the first prediction of the batch that carries label, images
\* in order and the predictions of each image in order.
FirstSeen(perImage, label) ==
    LET ps == AllPredictions(perImage, 1)
    IN  CHOOSE j \in 1..Len(ps) :
            /\ ps[j].tagName = label
            /\ \A i \in 1..(j - 1) : ps[i].tagName # label

\* The entries of averages that hold its greatest number.
MaxEntries(averages) ==
    {i \in 1..Len(averages) :
        /\ ~IsNaN(averages[i][2])
        /\ \A j \in 1..Len(averages) :
              ~IsNaN(averages[j][2]) => ~Less(averages[i][2], averages[j][2])}

\* C15: when getMaxLabel is given the averages averageByTag made of a batch and
\* several labels share the greatest probability, it returns the one of them
\* that the batch shows first (image order, then prediction order).
C15_FirstSeenWinsTie ==
    [][(fnOp = "averageByTag" /\ fnOp' = "getMaxLabel" /\ MaxEntries(fnOut) # {})
         => \E i \in MaxEntries(fnOut) :
               /\ fnOut'.label = fnOut[i][1]
               /\ \A j \in MaxEntries(fnOut) :
                     FirstSeen(fnIn, fnOut[i][1]) <= FirstSeen(fnIn, fnOut[j][1])]_vars

\* What does hold of getMaxLabel: of the labels that share the greatest
\* probability it returns the first in Object.entries order, which is the order
\* of first appearance except that the labels that are array indices come
\* first.
C15_FirstInEntriesOrder ==
    [][(fnOp = "averageByTag" /\ fnOp' = "getMaxLabel" /\ MaxEntries(fnOut) # {})
         => \E i \in MaxEntries(fnOut) :
               /\ fnOut'.label = fnOut[i][1]
               /\ \A j \in MaxEntries(fnOut) : i <= j
               /\ \A j \in MaxEntries(fnOut) :
                     (fnOut[i][1] \in IndexKeys <=> fnOut[j][1] \in IndexKeys)
                         => FirstSeen(fnIn, fnOut[i][1]) <= FirstSeen(fnIn, fnOut[j][1])]_vars

\* The join of a stage in one state: no first success completes the stage, and
\* the first failure has aborted it at once, whatever its siblings are doing;
\* a sibling still in flight then is not cancelled: it can yet succeed or fail.
JoinAllOrNothing(r) ==
    /\ (\E k \in CallsOf(r, 1) : calls[r][k].state # "fulfilled")
          => /\ ~locals[r].defined
             /\ CallsOf(r, 2) = {}
             /\ resp[r].status # 200
    /\ (\E k \in CallsOf(r, 2) : calls[r][k].state # "fulfilled") => resp[r].status # 200
    /\ resp[r].status = 200 => Len(calls[r]) = 2 * Len(body[r].items)
    /\ (\E k \in 1..Len(calls[r]) : calls[r][k].state = "rejected")
          => pc[r] = "done" /\ resp[r].status = 500
    /\ \A k \in 1..Len(calls[r]) :
          (pc[r] = "done" /\ calls[r][k].state = "pending")
              => /\ ENABLED (\E a \in Answers : Fulfil(r, k, a))
                 /\ ENABLED (\E e \in Errors : Reject(r, k, e))

\* What a step leaves of a request that was answered: the result of a call that
\* ends afterwards goes nowhere.
LateResultsDiscarded(r) ==
    pc[r] = "done"
        => /\ pc'[r] = "done"
           /\ resp'[r] = resp[r]
           /\ nresp'[r] = nresp[r]
           /\ locals'[r] = locals[r]
           /\ Len(calls'[r]) = Len(calls[r])
           /\ \A k \in 1..Len(calls[r]) :
                 calls[r][k].state # "pending" => calls'[r][k] = calls[r][k]

\* C16: the join of a stage is all-or-nothing and no race.  The stage completes
\* only when all its calls have succeeded; the first failure aborts it at once,
\* so that 500 is answered while siblings are in flight; these are not
\* cancelled, and what they return later is discarded.
C16_AllOrNothingJoin ==
    /\ [](\A r \in Reqs : JoinAllOrNothing(r))
    /\ [][\A r \in Reqs : LateResultsDiscarded(r)]_vars

\* A stage-2 call failed and the request was answered 500 while its sibling is
\* still in flight.
C16_Witness ==
    /\ resp["r1"].status = 500
    /\ \E k \in CallsOf("r1", 2) : calls["r1"][k].state = "rejected"
    /\ \E k \in CallsOf("r1", 2) : calls["r1"][k].state = "pending"

\* The sibling of a failed stage-1 call succeeded after the 500 was sent.
C16_WitnessLateSuccess ==
    /\ resp["r1"].status = 500
    /\ Len(calls["r1"]) = 2
    /\ calls["r1"][1].state = "rejected"
    /\ calls["r1"][2].state = "fulfilled"

\* The responses of a request counted: none while its handler runs, one once
\* it has ended, and that one is a 400, a 500 or a 200.
OneResponse(r) ==
    /\ nresp[r] <= 1
    /\ nresp[r] = 1 <=> pc[r] = "done"
    /\ nresp[r] = 1 <=> resp[r].status \in {400, 500, 200}
    /\ nresp[r] = 0 <=> resp[r] = NoResponse

\* A call of the request ends in this step.
Settles(r) ==
    \E k \in 1..Len(calls[r]) :
        /\ calls[r][k].state = "pending"
        /\ Len(calls'[r]) >= k
        /\ calls'[r][k].state # "pending"

\* C17: a request gets exactly one response, a 400, a 500 or a 200; a call of
\* the request that succeeds or fails after the response was sent causes no
\* second response and leaves the response sent as it is.
C17_ExactlyOneResponse ==
    /\ [](\A r \in Reqs : OneResponse(r))
    /\ [][\A r \in Reqs :
             (nresp[r] = 1 /\ Settles(r)) => (nresp'[r] = 1 /\ resp'[r] = resp[r])]_vars

\* Both calls of a stage failed, the second after the 500 was sent, and there
\* is one response.
C17_Witness ==
    /\ nresp["r1"] = 1
    /\ resp["r1"].status = 500
    /\ \E j, k \in CallsOf("r1", 1) :
          /\ j # k
          /\ calls["r1"][j].state = "rejected"
          /\ calls["r1"][k].state = "rejected"

\* A call succeeded after the 500 was sent, and there is one response.
C17_WitnessLateSuccess ==
    /\ nresp["r1"] = 1
    /\ resp["r1"].status = 500
    /\ \E j, k \in CallsOf("r1", 2) :
          /\ calls["r1"][j].state = "rejected"
          /\ calls["r1"][k].state = "fulfilled"

\* C18: a request that was received eventually has its response, provided each
\* call that was issued eventually succeeds, fails or runs into its timeout.
C18_EventuallyAnswered ==
    \A r \in Reqs : (pc[r] # "idle") ~> (nresp[r] = 1 /\ resp[r].status \in {400, 500, 200})

\* Every call of both stages has ended and the request has its 200.
C18_Witness ==
    /\ Len(calls["r1"]) = 2 * Len(body["r1"].items)
    /\ \A k \in 1..Len(calls["r1"]) : calls["r1"][k].state = "fulfilled"
    /\ Len(calls["r1"]) > 0
    /\ nresp["r1"] = 1
    /\ resp["r1"].status = 200

\* While calls are in flight and no response is sent, the handler is waiting
\* for exactly these calls: there is no state at which it waits for nothing.
C18_WaitsOnlyForPendingCalls ==
    \A r \in Reqs :
        (pc[r] \in {"stage1", "stage2"})
            => \E k \in 1..Len(calls[r]) :
                  /\ calls[r][k].state = "pending"
                  /\ Awaiting(pc[r], calls[r][k].stage)

\* The call at position k of the request fails in this step.
FailsNow(r, k) ==
    /\ calls[r][k].state = "pending"
    /\ Len(calls'[r]) >= k
    /\ calls'[r][k].state = "rejected"

\* C19: the error in the 500 response is that of the call that failed first in
\* time.  The step in which the first call of a request fails sends 500 with
\* the details of that call's error; a call that fails when another has failed
\* before, whatever their positions, leaves the response as it is, and so does
\* every later step.
C19_FirstFailureInTime ==
    [][\A r \in Reqs :
         /\ \A k \in 1..Len(calls[r]) :
               FailsNow(r, k) =>
                   IF \E j \in 1..Len(calls[r]) : calls[r][j].state = "rejected"
                   THEN resp'[r] = resp[r]
                   ELSE /\ resp[r].status = 0
                        /\ resp'[r].status = 500
                        /\ resp'[r].body.details = ExpectedDetails(calls'[r][k].reason)
         /\ resp[r].status = 500 => resp'[r] = resp[r]]_vars

\* The call at position 1 got a 429 with a body and the call at position 2 of
\* the same stage timed out; the response has the message of the timeout: the
\* call at position 2 failed first.
C19_Witness ==
    /\ Len(calls["r1"]) = 2
    /\ calls["r1"][1].state = "rejected"
    /\ calls["r1"][2].state = "rejected"
    /\ calls["r1"][1].reason.data = "quota exceeded"
    /\ calls["r1"][2].reason.data = undefined
    /\ resp["r1"].status = 500
    /\ resp["r1"].body.details = calls["r1"][2].reason.message
    /\ resp["r1"].body.details # ExpectedDetails(calls["r1"][1].reason)

\* The same two failures in the other order: the response has the body of
\* the 429.
C19_WitnessOtherOrder ==
    /\ Len(calls["r1"]) = 2
    /\ calls["r1"][1].state = "rejected"
    /\ calls["r1"][2].state = "rejected"
    /\ calls["r1"][1].reason.data = "quota exceeded"
    /\ calls["r1"][2].reason.data = undefined
    /\ resp["r1"].status = 500
    /\ resp["r1"].body.details = "quota exceeded"

\* The imageUrls of the request is missing, not a list, or an empty list.
NotANonEmptyList(r) == body[r].kind # "array" \/ body[r].items = <<>>

\* One of the three keys is not set in the environment of the process.
SomeKeyUnconfigured ==
    \/ Unconfigured(env.MODEL_NOT_MODEL_KEY)
    \/ Unconfigured(env.CIVILIAN_HYBRID_KEY)
    \/ Unconfigured(env.SUPERMODEL_COMMON_KEY)

\* The checks of one request in their order.
ChecksInOrder(r) ==
    pc[r] # "idle"
        => /\ NotANonEmptyList(r)
                => resp[r].status = 400 /\ calls[r] = <<>>
           /\ (~NotANonEmptyList(r) /\ SomeKeyUnconfigured)
                => /\ resp[r].status = 500
                   /\ DOMAIN resp[r].body = {"error"}
                   /\ calls[r] = <<>>
           /\ (~NotANonEmptyList(r) /\ ~SomeKeyUnconfigured) => calls[r] # <<>>
           /\ calls[r] # <<>> => (~NotANonEmptyList(r) /\ ~SomeKeyUnconfigured)

\* C20: the checks of a request are ordered validation, credentials, calls.
\* A request whose imageUrls is missing, not a list or empty is answered 400
\* also when keys are unconfigured; a request that passes validation is
\* answered 500 when a key is unconfigured, the process having started without
\* it; calls are made only for a request that passed both checks.
C20_ValidationThenCredentials == \A r \in Reqs : ChecksInOrder(r)

\* A request without imageUrls was answered 400 by a process with no key set.
C20_Witness ==
    /\ body["r1"].kind = "undefined"
    /\ Unconfigured(env.MODEL_NOT_MODEL_KEY)
    /\ Unconfigured(env.CIVILIAN_HYBRID_KEY)
    /\ Unconfigured(env.SUPERMODEL_COMMON_KEY)
    /\ resp["r1"].status = 400

\* Two requests to a process that started without a key: the credential check
\* answered each of the two that passed validation, and the one that did not
\* pass validation was answered 400.
C20_EveryRequest ==
    SomeKeyUnconfigured
        => \A r \in Reqs :
              pc[r] # "idle"
                  => /\ resp[r].status = (IF NotANonEmptyList(r) THEN 400 ELSE 500)
                     /\ calls[r] = <<>>

\* Both requests passed validation and both were answered 500 for the key.
C20_WitnessBothRequests ==
    /\ SomeKeyUnconfigured
    /\ \A r \in Reqs :
          /\ ~NotANonEmptyList(r)
          /\ resp[r].status = 500
          /\ calls[r] = <<>>

=============================================================================
